---- MODULE Spec2Model ----
(***************************************************************************)
(* MediBloom: the SymptomChecker component (two forms, two AI calls, a     *)
(* voice-input adapter) and the two server flows it calls.                 *)
(*                                                                         *)
(* The component is a single-threaded, event-driven React function         *)
(* component.  Its state is the useState cells and the two useForm stores; *)
(* every event handler, promise continuation and browser callback is one   *)
(* action.  An awaited AI call is an entry of analysisCalls / remedyCalls  *)
(* between the step that issues it and the step that settles it.  The      *)
(* component function re-runs after every state update; what it renders    *)
(* (disabled attributes, conditional cards, displayedRemedies) is computed *)
(* from the state of the same step.                                        *)
(***************************************************************************)
EXTENDS Integers, Sequences, FiniteSets, TLC

VARIABLES
    analysisResult,        \* useState<SymptomAnalysisOutput | null>
    remedyResult,          \* useState<RemedyRecommendationOutput | null>
    isLoadingAnalysis,     \* useState(false)
    isLoadingRemedies,     \* useState(false)
    error,                 \* useState<string | null>
    currentSymptoms,       \* useState<string>("")
    recognition,           \* useState<SpeechRecognition | null>
    isListening,           \* useState(false)
    voiceInputError,       \* useState<string | null>
    supportsVoiceInput,    \* useState<boolean | undefined>
    symptomForm,           \* useForm store: value, error message, isSubmitted
    locationForm,          \* useForm store: value, error message
    displayedRemedies,     \* the list the last render displayed
    analysisCalls,         \* analyzeSymptoms calls awaiting settlement
    remedyCalls,           \* remedyRecommendation calls awaiting settlement
    speechAPI,             \* does window expose (webkit)SpeechRecognition
    session,               \* the browser recognizer: idle/started/stopping/ending
    remedyResultOrigin,    \* history: the symptoms of the request remedyResult answers
    analysisResultOrigin,  \* history: the request whose response is analysisResult
    discarded              \* history: what the submission in flight cleared

vars == << analysisResult, remedyResult, isLoadingAnalysis, isLoadingRemedies,
           error, currentSymptoms, recognition, isListening, voiceInputError,
           supportsVoiceInput, symptomForm, locationForm, displayedRemedies,
           analysisCalls, remedyCalls, speechAPI, session,
           remedyResultOrigin, analysisResultOrigin, discarded >>

(***************************************************************************)
(* Values                                                                  *)
(***************************************************************************)

\* JavaScript null for an object-typed cell.
null == [isNull |-> TRUE]

\* JavaScript null for a string-typed cell (no message of the program is
\* this text, so the two cannot be confused).
nullStr == "null"

\* undefined, the initial supportsVoiceInput; true and false are "true" and
\* "false" in that cell.
undefined == "undefined"

\* Bounds of the model.
MaxConditions == 2      \* longest conditions list the provider returns
MaxRemedies == 2        \* longest remedies list the provider returns
MaxDisplay == 4         \* longest list displayedRemedies is applied to alone
MaxFieldLen == 10       \* dictation stops growing the field beyond this

\* Program constants.
MinSymptoms == 10
MinLocation == 2

\* Sequences over S of length 0..n.
RECURSIVE SeqsUpTo(_, _)
SeqsUpTo(S, n) ==
    IF n = 0 THEN { << >> }
    ELSE LET shorter == SeqsUpTo(S, n - 1)
         IN  shorter \cup { Append(s, x) : s \in { t \in shorter : Len(t) = n - 1 }, x \in S }

\* What the user types.
SymptomTexts == { "", "dry", "sore throat", "bad headache" }
LocationTexts == { "", "K", "NY", "New York" }
Transcripts == { "coughs" }

\* What the provider may answer.
Conditions == { [condition |-> "Common Cold", likelihood |-> 70],
                [condition |-> "Flu", likelihood |-> 30] }
Remedies == { [name |-> "Ginger Tea", explanation |-> "Steep fresh ginger."] }
AnalysisOutputs == { [conditions |-> s] : s \in SeqsUpTo(Conditions, MaxConditions) }
RemedyOutputs == { [remedies |-> s] : s \in SeqsUpTo(Remedies, MaxRemedies) }

\* The recognizer's error codes (the last stands for every other code).
SpeechErrors == { "no-speech", "language-not-supported", "not-allowed",
                  "service-not-allowed", "network" }

(***************************************************************************)
(* Messages                                                                *)
(***************************************************************************)

SymptomsTooShort == "Please describe your symptoms in at least 10 characters."
LocationTooShort == "Please enter your location (at least 2 characters)."
AnalysisFailed == "Failed to analyze symptoms. Please try again."
RemedyFailed == "Failed to recommend remedies. Please try again."
AnalysisRequired == "Symptom analysis is required before recommending remedies."
CouldNotStart ==
    "Could not start voice input. Ensure microphone permissions are granted and try again."

(***************************************************************************)
(* Pure functions of the program                                           *)
(***************************************************************************)

\* Mutant: the schema written with min(1).
symptomFormResolver_Min1(value) ==
    IF Len(value) >= 1 THEN nullStr ELSE SymptomsTooShort

\* zodResolver(symptomFormSchema): z.string().min(10, {message}).  The
\* result is the field's error message, nullStr when the value is valid.
symptomFormResolver(value) ==
    IF Len(value) >= MinSymptoms THEN nullStr ELSE SymptomsTooShort

\* Mutant: the schema written with min(1).
locationFormResolver_Min1(value) ==
    IF Len(value) >= 1 THEN nullStr ELSE LocationTooShort

\* zodResolver(locationFormSchema): z.string().min(2, {message}).
locationFormResolver(value) ==
    IF Len(value) >= MinLocation THEN nullStr ELSE LocationTooShort

\* analysisResult.conditions.map(c => c.condition)
conditionNames(conditions) ==
    [k \in 1..Len(conditions) |-> conditions[k].condition]

\* Array.prototype.join: R = ""; for k = 0..len-1: if k > 0 then R += sep;
\* R += String(arr[k]).  JoinUpTo is R after k elements.
RECURSIVE JoinUpTo(_, _, _)
JoinUpTo(arr, sep, k) ==
    IF k = 0 THEN ""
    ELSE LET R == JoinUpTo(arr, sep, k - 1)
         IN  (IF k > 1 THEN R \o sep ELSE R) \o arr[k]

join(arr, sep) == JoinUpTo(arr, sep, Len(arr))

\* Mutant: join(',') for join(', ').
possibleConditionsOf_NoSpace(result) == join(conditionNames(result.conditions), ",")

\* const possibleConditions = analysisResult.conditions.map(...).join(', ')
possibleConditionsOf(result) == join(conditionNames(result.conditions), ", ")

\* The RemedyRecommendationInput handleRemedySubmit builds.
remedyInput(symptoms, location, result) ==
    [ symptoms |-> symptoms,
      location |-> location,
      possibleConditions |-> possibleConditionsOf(result) ]

\* Mutant: the last remedy moved to the front.
renderDisplayedRemedies_LastToFirst(result) ==
    IF result = null THEN << >>
    ELSE IF Len(result.remedies) > 1
         THEN LET n == Len(result.remedies)
              IN  << result.remedies[n] >> \o SubSeq(result.remedies, 1, n - 1)
         ELSE result.remedies

\* let displayedRemedies = remedyResult?.remedies || []; if more than one
\* remedy, [...remedies.slice(1), firstRemedy]; if exactly one, remedies.
renderDisplayedRemedies(result) ==
    IF result = null THEN << >>
    ELSE IF Len(result.remedies) > 1
         THEN LET firstRemedy == result.remedies[1]
              IN  SubSeq(result.remedies, 2, Len(result.remedies)) \o << firstRemedy >>
         ELSE result.remedies

\* Mutant: the badge on the first displayed remedy.
mostEffectiveIndexes_First(displayed) ==
    { k \in 1..Len(displayed) : k = 1 }

\* Index of the displayed remedy that carries the "Most Effective" badge:
\* index === displayedRemedies.length - 1 && displayedRemedies.length > 0.
mostEffectiveIndexes(displayed) ==
    { k \in 1..Len(displayed) : k = Len(displayed) /\ Len(displayed) > 0 }

\* instance.onerror's choice of message.
speechErrorMessage(code, message) ==
    IF code = "no-speech"
    THEN "No speech detected. Please ensure your microphone is working and try again."
    ELSE IF code = "language-not-supported"
    THEN "Nepali voice input might not be supported by your browser. Please try speaking in English, or ensure your browser and OS language settings are configured for Nepali."
    ELSE IF code = "not-allowed" \/ code = "service-not-allowed"
    THEN "Microphone access denied. Please enable microphone access in your browser settings and refresh the page."
    ELSE "Voice input error: " \o (IF message # "" THEN message ELSE code) \o "."

\* Mutant: the transcript replaces the field's content.
appendTranscript_Replaces(currentSymptomsValue, transcript) == transcript

\* instance.onresult's new field value.
appendTranscript(currentSymptomsValue, transcript) ==
    IF currentSymptomsValue # ""
    THEN currentSymptomsValue \o " " \o transcript
    ELSE transcript

(***************************************************************************)
(* The server flows.  The provider's answer to prompt(input) is            *)
(* [threw |-> TRUE] (network or provider error) or [threw |-> FALSE,       *)
(* output |-> o] with o the parsed output, null when there is none.  A     *)
(* flow's result is [threw |-> TRUE] or [threw |-> FALSE, value |-> v].    *)
(***************************************************************************)

Thrown == [threw |-> TRUE]
Returned(v) == [threw |-> FALSE, value |-> v]

AnalysisProviderAnswers ==
    { Thrown } \cup { [threw |-> FALSE, output |-> o] : o \in AnalysisOutputs \cup { null } }

RemedyProviderAnswers ==
    { Thrown } \cup { [threw |-> FALSE, output |-> o] : o \in RemedyOutputs \cup { null } }

\* const {output} = await prompt(input); return output!;
\* (the non-null assertion is erased at compile time: null is returned)
symptomAnalysisFlow(answer) ==
    IF answer.threw THEN Thrown ELSE Returned(answer.output)

\* const {output} = await prompt(input);
\* if (!output) throw new Error(...); return output;
remedyRecommendationFlow(answer) ==
    IF answer.threw THEN Thrown
    ELSE IF answer.output = null THEN Thrown
    ELSE Returned(answer.output)

(***************************************************************************)
(* Initial state: the useState / useForm initial values, nothing rendered  *)
(* yet but the first pass of the component function.                       *)
(***************************************************************************)

NothingDiscarded == [analysis |-> FALSE, remedy |-> FALSE]

Init ==
    /\ analysisResult = null
    /\ remedyResult = null
    /\ isLoadingAnalysis = FALSE
    /\ isLoadingRemedies = FALSE
    /\ error = nullStr
    /\ currentSymptoms = ""
    /\ recognition = null
    /\ isListening = FALSE
    /\ voiceInputError = nullStr
    /\ supportsVoiceInput = undefined
    /\ symptomForm = [symptoms |-> "", message |-> nullStr, isSubmitted |-> FALSE]
    /\ locationForm = [message |-> nullStr]
    /\ displayedRemedies = renderDisplayedRemedies(null)
    /\ analysisCalls = << >>
    /\ remedyCalls = << >>
    /\ speechAPI \in BOOLEAN
    /\ session = "idle"
    /\ remedyResultOrigin = null
    /\ analysisResultOrigin = null
    /\ discarded = NothingDiscarded

(***************************************************************************)
(* What the render shows of the controls                                   *)
(***************************************************************************)

\* The mount effect has run (it runs before any event is handled).
mounted == supportsVoiceInput # undefined

\* Mutant: the submit button disabled while listening only.
symptomSubmitDisabled_ListeningOnly == isListening

\* <Button type="submit" disabled={isLoadingAnalysis || isListening}>
symptomSubmitDisabled == isLoadingAnalysis \/ isListening

\* {analysisResult && ( <Card> ... locationForm ... </Card> )}
locationFormRendered == analysisResult # null

\* <Button type="submit" disabled={isLoadingRemedies}>
remedySubmitDisabled == isLoadingRemedies

\* {supportsVoiceInput && ( <Button onClick={handleToggleListening} ...
voiceToggleRendered == supportsVoiceInput = "true"

\* Mutant: the microphone toggle never disabled.
voiceToggleDisabled_Never == FALSE

\* ... disabled={isLoadingAnalysis}> )}
voiceToggleDisabled == isLoadingAnalysis

\* {remedyResult && displayedRemedies.length > 0 && ( <Card> ... )}
remediesCardRendered == remedyResult # null /\ Len(displayedRemedies) > 0

\* The component function re-runs on the updated state.
Render == displayedRemedies' = renderDisplayedRemedies(remedyResult')

RemoveAt(calls, i) == SubSeq(calls, 1, i - 1) \o SubSeq(calls, i + 1, Len(calls))

voiceCells == << recognition, isListening, voiceInputError, supportsVoiceInput,
                 speechAPI, session >>
analysisCells == << analysisResult, isLoadingAnalysis, currentSymptoms,
                    analysisCalls, analysisResultOrigin, discarded >>
remedyCells == << remedyResult, isLoadingRemedies, remedyCalls, remedyResultOrigin >>

(***************************************************************************)
(* Mount                                                                   *)
(***************************************************************************)

\* useEffect(() => { ... }, []): probe the capability once.
useEffectMount ==
    /\ supportsVoiceInput = undefined
    /\ IF speechAPI
       THEN /\ supportsVoiceInput' = "true"
            /\ recognition' = [continuous |-> FALSE, interimResults |-> FALSE]
       ELSE /\ supportsVoiceInput' = "false"
            /\ recognition' = recognition
    /\ UNCHANGED << isListening, voiceInputError, speechAPI, session, error,
                    symptomForm, locationForm >>
    /\ UNCHANGED analysisCells
    /\ UNCHANGED remedyCells
    /\ Render

(***************************************************************************)
(* Symptom form                                                            *)
(***************************************************************************)

\* The user edits the textarea.  react-hook-form validates on change only
\* once the form has been submitted (mode onSubmit, reValidateMode onChange).
ChangeSymptoms(text) ==
    /\ mounted
    /\ text # symptomForm.symptoms
    /\ symptomForm' = [symptomForm EXCEPT
                          !.symptoms = text,
                          !.message = IF symptomForm.isSubmitted
                                      THEN symptomFormResolver(text)
                                      ELSE @]
    /\ UNCHANGED << error, locationForm >>
    /\ UNCHANGED voiceCells
    /\ UNCHANGED analysisCells
    /\ UNCHANGED remedyCells
    /\ Render

\* Mutant: handleSymptomSubmit without setRemedyResult(null).
handleSymptomSubmit_KeepsRemedies(data) ==
    /\ isLoadingAnalysis' = TRUE
    /\ error' = nullStr
    /\ voiceInputError' = nullStr
    /\ analysisResult' = null
    /\ currentSymptoms' = data
    /\ analysisCalls' = Append(analysisCalls, [symptoms |-> data])
    /\ analysisResultOrigin' = null
    /\ discarded' = [analysis |-> analysisResult # null, remedy |-> FALSE]
    /\ UNCHANGED << remedyResult, remedyResultOrigin, isLoadingRemedies, remedyCalls,
                    recognition, isListening, supportsVoiceInput, speechAPI, session >>

\* Mutant: handleSymptomSubmit without setCurrentSymptoms(data.symptoms).
handleSymptomSubmit_NoSetCurrent(data) ==
    /\ isLoadingAnalysis' = TRUE
    /\ error' = nullStr
    /\ voiceInputError' = nullStr
    /\ analysisResult' = null
    /\ remedyResult' = null
    /\ analysisCalls' = Append(analysisCalls, [symptoms |-> data])
    /\ analysisResultOrigin' = null
    /\ remedyResultOrigin' = null
    /\ discarded' = [analysis |-> analysisResult # null, remedy |-> remedyResult # null]
    /\ UNCHANGED << currentSymptoms, isLoadingRemedies, remedyCalls, recognition,
                    isListening, supportsVoiceInput, speechAPI, session >>

\* Mutant: handleSymptomSubmit without setError(null).
handleSymptomSubmit_KeepsError(data) ==
    /\ isLoadingAnalysis' = TRUE
    /\ voiceInputError' = nullStr
    /\ analysisResult' = null
    /\ remedyResult' = null
    /\ currentSymptoms' = data
    /\ analysisCalls' = Append(analysisCalls, [symptoms |-> data])
    /\ analysisResultOrigin' = null
    /\ remedyResultOrigin' = null
    /\ discarded' = [analysis |-> analysisResult # null, remedy |-> remedyResult # null]
    /\ UNCHANGED << error, isLoadingRemedies, remedyCalls, recognition, isListening,
                    supportsVoiceInput, speechAPI, session >>

\* handleSymptomSubmit up to its await: the state resets and the call.
handleSymptomSubmit(data) ==
    /\ isLoadingAnalysis' = TRUE
    /\ error' = nullStr
    /\ voiceInputError' = nullStr
    /\ analysisResult' = null
    /\ remedyResult' = null
    /\ currentSymptoms' = data
    /\ analysisCalls' = Append(analysisCalls, [symptoms |-> data])
    /\ analysisResultOrigin' = null
    /\ remedyResultOrigin' = null
    /\ discarded' = [analysis |-> analysisResult # null, remedy |-> remedyResult # null]
    /\ UNCHANGED << isLoadingRemedies, remedyCalls, recognition, isListening,
                    supportsVoiceInput, speechAPI, session >>

\* <form onSubmit={symptomForm.handleSubmit(handleSymptomSubmit)}>: the
\* resolver runs; the handler is called only with valid data.
SubmitSymptomForm ==
    /\ mounted
    /\ ~symptomSubmitDisabled
    /\ LET data == symptomForm.symptoms
           message == symptomFormResolver(data)
       IN  /\ symptomForm' = [symptomForm EXCEPT !.message = message,
                                                 !.isSubmitted = TRUE]
           /\ IF message = nullStr
              THEN handleSymptomSubmit(data)
              ELSE /\ UNCHANGED error
                   /\ UNCHANGED voiceCells
                   /\ UNCHANGED analysisCells
                   /\ UNCHANGED remedyCells
    /\ UNCHANGED locationForm
    /\ Render

\* Mutant: setIsLoadingAnalysis(false) in the try block, not in finally.
symptomSubmitSettled_NoFinally(i, answer) ==
    /\ i \in 1..Len(analysisCalls)
    /\ LET result == symptomAnalysisFlow(answer)
       IN  IF result.threw
           THEN /\ error' = AnalysisFailed
                /\ UNCHANGED << analysisResult, analysisResultOrigin, isLoadingAnalysis >>
           ELSE /\ analysisResult' = result.value
                /\ analysisResultOrigin' =
                       IF result.value = null THEN null ELSE analysisCalls[i]
                /\ isLoadingAnalysis' = FALSE
                /\ UNCHANGED error
    /\ analysisCalls' = RemoveAt(analysisCalls, i)
    /\ discarded' = NothingDiscarded
    /\ UNCHANGED << currentSymptoms, symptomForm, locationForm >>
    /\ UNCHANGED voiceCells
    /\ UNCHANGED remedyCells
    /\ Render

\* Mutant: the catch block calls analyzeSymptoms again.
symptomSubmitSettled_Retries(i, answer) ==
    /\ i \in 1..Len(analysisCalls)
    /\ LET result == symptomAnalysisFlow(answer)
       IN  IF result.threw
           THEN /\ error' = AnalysisFailed
                /\ analysisCalls' = Append(RemoveAt(analysisCalls, i), analysisCalls[i])
                /\ UNCHANGED << analysisResult, analysisResultOrigin, isLoadingAnalysis,
                                discarded >>
           ELSE /\ analysisResult' = result.value
                /\ analysisResultOrigin' =
                       IF result.value = null THEN null ELSE analysisCalls[i]
                /\ isLoadingAnalysis' = FALSE
                /\ analysisCalls' = RemoveAt(analysisCalls, i)
                /\ discarded' = NothingDiscarded
                /\ UNCHANGED error
    /\ UNCHANGED << currentSymptoms, symptomForm, locationForm >>
    /\ UNCHANGED voiceCells
    /\ UNCHANGED remedyCells
    /\ Render

\* handleSymptomSubmit from its await on: try { setAnalysisResult(result) }
\* catch { setError(...) } finally { setIsLoadingAnalysis(false) }.
symptomSubmitSettled(i, answer) ==
    /\ i \in 1..Len(analysisCalls)
    /\ LET result == symptomAnalysisFlow(answer)
       IN  IF result.threw
           THEN /\ error' = AnalysisFailed
                /\ UNCHANGED << analysisResult, analysisResultOrigin >>
           ELSE /\ analysisResult' = result.value
                /\ analysisResultOrigin' =
                       IF result.value = null THEN null ELSE analysisCalls[i]
                /\ UNCHANGED error
    /\ isLoadingAnalysis' = FALSE
    /\ analysisCalls' = RemoveAt(analysisCalls, i)
    /\ discarded' = NothingDiscarded
    /\ UNCHANGED << currentSymptoms, symptomForm, locationForm >>
    /\ UNCHANGED voiceCells
    /\ UNCHANGED remedyCells
    /\ Render

AnalyzeSymptomsReturns(i, output) ==
    symptomSubmitSettled(i, [threw |-> FALSE, output |-> output])

AnalyzeSymptomsNoOutput(i) ==
    symptomSubmitSettled(i, [threw |-> FALSE, output |-> null])

AnalyzeSymptomsThrows(i) ==
    symptomSubmitSettled(i, Thrown)

(***************************************************************************)
(* Location form                                                           *)
(***************************************************************************)

\* Mutant: the guard placed after the state resets.
handleRemedySubmit_ResetsFirst(location) ==
    IF analysisResult = null \/ currentSymptoms = ""
    THEN /\ error' = AnalysisRequired
         /\ isLoadingRemedies' = TRUE
         /\ remedyResult' = null
         /\ remedyResultOrigin' = null
         /\ UNCHANGED remedyCalls
    ELSE /\ isLoadingRemedies' = TRUE
         /\ error' = nullStr
         /\ remedyResult' = null
         /\ remedyResultOrigin' = null
         /\ remedyCalls' = Append(remedyCalls,
                                  remedyInput(currentSymptoms, location, analysisResult))

\* Mutant: handleRemedySubmit without setRemedyResult(null).
handleRemedySubmit_KeepsResult(location) ==
    IF analysisResult = null \/ currentSymptoms = ""
    THEN /\ error' = AnalysisRequired
         /\ UNCHANGED remedyCells
    ELSE /\ isLoadingRemedies' = TRUE
         /\ error' = nullStr
         /\ UNCHANGED << remedyResult, remedyResultOrigin >>
         /\ remedyCalls' = Append(remedyCalls,
                                  remedyInput(currentSymptoms, location, analysisResult))

\* handleRemedySubmit up to its await: the guard, the state resets, the
\* input and the call.
handleRemedySubmit(location) ==
    IF analysisResult = null \/ currentSymptoms = ""
    THEN /\ error' = AnalysisRequired
         /\ UNCHANGED remedyCells
    ELSE /\ isLoadingRemedies' = TRUE
         /\ error' = nullStr
         /\ remedyResult' = null
         /\ remedyResultOrigin' = null
         /\ remedyCalls' = Append(remedyCalls,
                                  remedyInput(currentSymptoms, location, analysisResult))

\* <form onSubmit={locationForm.handleSubmit(handleRemedySubmit)}>, with the
\* text the user has entered in the location input.
SubmitLocationForm(location) ==
    /\ mounted
    /\ locationFormRendered
    /\ ~remedySubmitDisabled
    /\ LET message == locationFormResolver(location)
       IN  /\ locationForm' = [locationForm EXCEPT !.message = message]
           /\ IF message = nullStr
              THEN handleRemedySubmit(location)
              ELSE /\ UNCHANGED error
                   /\ UNCHANGED remedyCells
    /\ UNCHANGED symptomForm
    /\ UNCHANGED voiceCells
    /\ UNCHANGED analysisCells
    /\ Render

\* handleRemedySubmit called with valid data while the location card is not
\* on the page: the call its guard is written for.
CallRemedyHandlerUnrendered(location) ==
    /\ mounted
    /\ ~locationFormRendered
    /\ locationFormResolver(location) = nullStr
    /\ handleRemedySubmit(location)
    /\ UNCHANGED << symptomForm, locationForm >>
    /\ UNCHANGED voiceCells
    /\ UNCHANGED analysisCells
    /\ Render

\* Mutant: the catch block also drops the analysis.
remedySubmitSettled_DropsAnalysis(i, answer) ==
    /\ i \in 1..Len(remedyCalls)
    /\ LET result == remedyRecommendationFlow(answer)
       IN  IF result.threw
           THEN /\ error' = RemedyFailed
                /\ analysisResult' = null
                /\ analysisResultOrigin' = null
                /\ UNCHANGED << remedyResult, remedyResultOrigin >>
           ELSE /\ remedyResult' = result.value
                /\ remedyResultOrigin' = [symptoms |-> remedyCalls[i].symptoms]
                /\ UNCHANGED << error, analysisResult, analysisResultOrigin >>
    /\ isLoadingRemedies' = FALSE
    /\ remedyCalls' = RemoveAt(remedyCalls, i)
    /\ UNCHANGED << symptomForm, locationForm, isLoadingAnalysis, currentSymptoms,
                    analysisCalls, discarded >>
    /\ UNCHANGED voiceCells
    /\ Render

\* Mutant: setIsLoadingRemedies(false) in the try block, not in finally.
remedySubmitSettled_NoFinally(i, answer) ==
    /\ i \in 1..Len(remedyCalls)
    /\ LET result == remedyRecommendationFlow(answer)
       IN  IF result.threw
           THEN /\ error' = RemedyFailed
                /\ UNCHANGED << remedyResult, remedyResultOrigin, isLoadingRemedies >>
           ELSE /\ remedyResult' = result.value
                /\ remedyResultOrigin' = [symptoms |-> remedyCalls[i].symptoms]
                /\ isLoadingRemedies' = FALSE
                /\ UNCHANGED error
    /\ remedyCalls' = RemoveAt(remedyCalls, i)
    /\ UNCHANGED << symptomForm, locationForm >>
    /\ UNCHANGED voiceCells
    /\ UNCHANGED analysisCells
    /\ Render

\* handleRemedySubmit from its await on: try { setRemedyResult(result) }
\* catch { setError(...) } finally { setIsLoadingRemedies(false) }.
remedySubmitSettled(i, answer) ==
    /\ i \in 1..Len(remedyCalls)
    /\ LET result == remedyRecommendationFlow(answer)
       IN  IF result.threw
           THEN /\ error' = RemedyFailed
                /\ UNCHANGED << remedyResult, remedyResultOrigin >>
           ELSE /\ remedyResult' = result.value
                /\ remedyResultOrigin' = [symptoms |-> remedyCalls[i].symptoms]
                /\ UNCHANGED error
    /\ isLoadingRemedies' = FALSE
    /\ remedyCalls' = RemoveAt(remedyCalls, i)
    /\ UNCHANGED << symptomForm, locationForm >>
    /\ UNCHANGED voiceCells
    /\ UNCHANGED analysisCells
    /\ Render

RemedyRecommendationReturns(i, output) ==
    remedySubmitSettled(i, [threw |-> FALSE, output |-> output])

RemedyRecommendationNoOutput(i) ==
    remedySubmitSettled(i, [threw |-> FALSE, output |-> null])

RemedyRecommendationThrows(i) ==
    remedySubmitSettled(i, Thrown)

(***************************************************************************)
(* Voice input.  session is the browser's recognizer: "idle"; "started"    *)
(* after start(); "stopping" after stop(); "ending" once it has delivered  *)
(* its one result (continuous = false) or an error and only end is left.   *)
(***************************************************************************)

SpeechMessages == { "", "audio capture failed" }

\* Mutant: handleToggleListening without its `if (!recognition) return`.
handleToggleListening_NoNullCheck ==
    IF isListening
    THEN /\ session' = IF session = "started" THEN "stopping" ELSE session
         /\ UNCHANGED << isListening, voiceInputError, error >>
    ELSE /\ error' = nullStr
         /\ IF session = "idle"
            THEN /\ session' = "started"
                 /\ isListening' = TRUE
                 /\ voiceInputError' = nullStr
            ELSE /\ voiceInputError' = CouldNotStart
                 /\ isListening' = FALSE
                 /\ UNCHANGED session

\* handleToggleListening
handleToggleListening ==
    IF recognition = null
    THEN UNCHANGED << isListening, voiceInputError, error, session >>
    ELSE IF isListening
    THEN /\ session' = IF session = "started" THEN "stopping" ELSE session
         /\ UNCHANGED << isListening, voiceInputError, error >>
    ELSE /\ error' = nullStr
         /\ IF session = "idle"
            THEN /\ session' = "started"
                 /\ isListening' = TRUE
                 /\ voiceInputError' = nullStr
            ELSE \* start() throws InvalidStateError: already started
                 /\ voiceInputError' = CouldNotStart
                 /\ isListening' = FALSE
                 /\ UNCHANGED session

\* <Button type="button" onClick={handleToggleListening} ...>
ClickVoiceToggle ==
    /\ mounted
    /\ voiceToggleRendered
    /\ ~voiceToggleDisabled
    /\ handleToggleListening
    /\ UNCHANGED << recognition, supportsVoiceInput, speechAPI, symptomForm, locationForm >>
    /\ UNCHANGED analysisCells
    /\ UNCHANGED remedyCells
    /\ Render

\* handleToggleListening called while its button is not on the page (the
\* capability is absent): the call its first line is written for.
CallToggleHandlerUnrendered ==
    /\ mounted
    /\ ~voiceToggleRendered
    /\ handleToggleListening
    /\ UNCHANGED << recognition, supportsVoiceInput, speechAPI, symptomForm, locationForm >>
    /\ UNCHANGED analysisCells
    /\ UNCHANGED remedyCells
    /\ Render

\* instance.onresult
onresult(transcript) ==
    /\ session \in { "started", "stopping" }
    /\ LET currentSymptomsValue == symptomForm.symptoms
           value == appendTranscript(currentSymptomsValue, transcript)
       IN  /\ Len(value) <= MaxFieldLen
           /\ symptomForm' = [symptomForm EXCEPT
                                 !.symptoms = value,
                                 !.message = symptomFormResolver(value)]
    /\ voiceInputError' = nullStr
    /\ session' = "ending"
    /\ UNCHANGED << recognition, isListening, supportsVoiceInput, speechAPI,
                    error, locationForm >>
    /\ UNCHANGED analysisCells
    /\ UNCHANGED remedyCells
    /\ Render

\* Mutant: onerror reports through the general banner as well.
onerror_SetsBanner(code, message) ==
    /\ session \in { "started", "stopping" }
    /\ voiceInputError' = speechErrorMessage(code, message)
    /\ error' = speechErrorMessage(code, message)
    /\ isListening' = FALSE
    /\ session' = "ending"
    /\ UNCHANGED << recognition, supportsVoiceInput, speechAPI,
                    symptomForm, locationForm >>
    /\ UNCHANGED analysisCells
    /\ UNCHANGED remedyCells
    /\ Render

\* instance.onerror
onerror(code, message) ==
    /\ session \in { "started", "stopping" }
    /\ voiceInputError' = speechErrorMessage(code, message)
    /\ isListening' = FALSE
    /\ session' = "ending"
    /\ UNCHANGED << recognition, supportsVoiceInput, speechAPI, error,
                    symptomForm, locationForm >>
    /\ UNCHANGED analysisCells
    /\ UNCHANGED remedyCells
    /\ Render

\* Mutant: onend without setIsListening(false).
onend_KeepsListening ==
    /\ session # "idle"
    /\ session' = "idle"
    /\ UNCHANGED << recognition, isListening, voiceInputError, supportsVoiceInput,
                    speechAPI, error, symptomForm, locationForm >>
    /\ UNCHANGED analysisCells
    /\ UNCHANGED remedyCells
    /\ Render

\* instance.onend
onend ==
    /\ session # "idle"
    /\ isListening' = FALSE
    /\ session' = "idle"
    /\ UNCHANGED << recognition, voiceInputError, supportsVoiceInput, speechAPI,
                    error, symptomForm, locationForm >>
    /\ UNCHANGED analysisCells
    /\ UNCHANGED remedyCells
    /\ Render

(***************************************************************************)
(* Specifications                                                          *)
(***************************************************************************)

Next ==
    \/ useEffectMount
    \/ \E text \in SymptomTexts : ChangeSymptoms(text)
    \/ SubmitSymptomForm
    \/ \E i \in 1..Len(analysisCalls), output \in AnalysisOutputs :
          AnalyzeSymptomsReturns(i, output)
    \/ \E i \in 1..Len(analysisCalls) : AnalyzeSymptomsNoOutput(i)
    \/ \E i \in 1..Len(analysisCalls) : AnalyzeSymptomsThrows(i)
    \/ \E location \in LocationTexts : SubmitLocationForm(location)
    \/ \E i \in 1..Len(remedyCalls), output \in RemedyOutputs :
          RemedyRecommendationReturns(i, output)
    \/ \E i \in 1..Len(remedyCalls) : RemedyRecommendationNoOutput(i)
    \/ \E i \in 1..Len(remedyCalls) : RemedyRecommendationThrows(i)
    \/ ClickVoiceToggle
    \/ \E transcript \in Transcripts : onresult(transcript)
    \/ \E code \in SpeechErrors, message \in SpeechMessages : onerror(code, message)
    \/ onend

Spec == Init /\ [][Next]_vars

\* The same program with its remedy and toggle handlers also called
\* directly, whatever the page renders.
NextHandler ==
    \/ Next
    \/ \E location \in LocationTexts : CallRemedyHandlerUnrendered(location)
    \/ CallToggleHandlerUnrendered

SpecHandler == Init /\ [][NextHandler]_vars

\* An awaited call settles: the promise of analyzeSymptoms /
\* remedyRecommendation is fulfilled or rejected and the continuation runs.
AnalysisSettles ==
    \E i \in 1..Len(analysisCalls), answer \in AnalysisProviderAnswers :
        symptomSubmitSettled(i, answer)

RemedySettles ==
    \E i \in 1..Len(remedyCalls), answer \in RemedyProviderAnswers :
        remedySubmitSettled(i, answer)

\* The program, every issued call eventually settling.  Nothing obliges the
\* user to act.
SpecLive ==
    /\ Init
    /\ [][Next]_vars
    /\ WF_vars(AnalysisSettles)
    /\ WF_vars(RemedySettles)

\* The same, and the browser's recognizer eventually ends every session it
\* has started (the end event follows a result, an error, a stop() or
\* silence).
SpecLiveVoice ==
    /\ Init
    /\ [][Next]_vars
    /\ WF_vars(AnalysisSettles)
    /\ WF_vars(RemedySettles)
    /\ WF_vars(onend)

(***************************************************************************)
(* displayedRemedies alone: a remedies response has just been stored and   *)
(* the component function runs on it.                                      *)
(***************************************************************************)

DisplayRemedies ==
    Remedies \cup { [name |-> "Steam", explanation |-> "Inhale warm steam."],
                    [name |-> "Honey", explanation |-> "A spoonful before bed."] }

DisplayInputs == { [remedies |-> s] : s \in SeqsUpTo(DisplayRemedies, MaxDisplay) }

InitDisplay ==
    /\ analysisResult \in { r \in AnalysisOutputs : Len(r.conditions) = 1 }
    /\ remedyResult \in DisplayInputs
    /\ isLoadingAnalysis = FALSE
    /\ isLoadingRemedies = FALSE
    /\ error = nullStr
    /\ currentSymptoms = "sore throat"
    /\ recognition = null
    /\ isListening = FALSE
    /\ voiceInputError = nullStr
    /\ supportsVoiceInput = "false"
    /\ symptomForm = [symptoms |-> "sore throat", message |-> nullStr, isSubmitted |-> TRUE]
    /\ locationForm = [message |-> nullStr]
    /\ displayedRemedies = renderDisplayedRemedies(null)
    /\ analysisCalls = << >>
    /\ remedyCalls = << >>
    /\ speechAPI = FALSE
    /\ session = "idle"
    /\ remedyResultOrigin = [symptoms |-> currentSymptoms]
    /\ analysisResultOrigin = [symptoms |-> currentSymptoms]
    /\ discarded = NothingDiscarded

\* Mutant: the reordering done in place (shift and push on
\* remedyResult.remedies itself).
RenderRemedies_InPlace ==
    /\ remedyResult' = IF remedyResult = null THEN null
                       ELSE [remedies |-> renderDisplayedRemedies(remedyResult)]
    /\ displayedRemedies' = renderDisplayedRemedies(remedyResult)
    /\ UNCHANGED << analysisResult, isLoadingAnalysis, isLoadingRemedies,
                    error, currentSymptoms, recognition, isListening, voiceInputError,
                    supportsVoiceInput, symptomForm, locationForm, analysisCalls,
                    remedyCalls, speechAPI, session, remedyResultOrigin,
                    analysisResultOrigin, discarded >>

\* The component function runs on the stored response.
RenderRemedies ==
    /\ displayedRemedies' = renderDisplayedRemedies(remedyResult)
    /\ UNCHANGED << analysisResult, remedyResult, isLoadingAnalysis, isLoadingRemedies,
                    error, currentSymptoms, recognition, isListening, voiceInputError,
                    supportsVoiceInput, symptomForm, locationForm, analysisCalls,
                    remedyCalls, speechAPI, session, remedyResultOrigin,
                    analysisResultOrigin, discarded >>

NextDisplay == RenderRemedies

SpecDisplay == InitDisplay /\ [][NextDisplay]_vars

\* The same, and then the user submits either form: the requests issued
\* with a reordered list on the page.
NextDisplayRequests ==
    \/ RenderRemedies
    \/ \E location \in LocationTexts : SubmitLocationForm(location)
    \/ SubmitSymptomForm

SpecDisplayRequests == InitDisplay /\ [][NextDisplayRequests]_vars

(***************************************************************************)
(* Steps, as the properties below recognise them                           *)
(***************************************************************************)

\* This step issues an analyzeSymptoms call.
AnalysisIssued == Len(analysisCalls') > Len(analysisCalls)

\* This step issues a remedyRecommendation call.
RemedyIssued == Len(remedyCalls') > Len(remedyCalls)

\* The call this step issues.
NewAnalysisCall == analysisCalls'[Len(analysisCalls')]
NewRemedyCall == remedyCalls'[Len(remedyCalls')]

\* The analyzeSymptoms call settles having thrown or without output.
AnalysisFails ==
    \E i \in 1..Len(analysisCalls) : AnalyzeSymptomsThrows(i) \/ AnalyzeSymptomsNoOutput(i)

\* The remedyRecommendation call settles having failed.
RemedyFails ==
    \E i \in 1..Len(remedyCalls) :
        RemedyRecommendationThrows(i) \/ RemedyRecommendationNoOutput(i)

\* handleRemedySubmit runs with valid data and its guard rejects.
RemedyGuardRejects ==
    /\ analysisResult = null \/ currentSymptoms = ""
    /\ \E location \in LocationTexts :
          /\ locationFormResolver(location) = nullStr
          /\ SubmitLocationForm(location) \/ CallRemedyHandlerUnrendered(location)

\* names joined with ", " in their order, from the head.
RECURSIVE CommaJoined(_)
CommaJoined(names) ==
    IF names = << >> THEN ""
    ELSE IF Len(names) = 1 THEN names[1]
    ELSE names[1] \o ", " \o CommaJoined(Tail(names))

\* How often x occurs in list.
Occurrences(list, x) == Cardinality({ k \in 1..Len(list) : list[k] = x })

\* out is in with its first element moved to the last position.
FirstMovedToLast(in, out) ==
    /\ Len(out) = Len(in)
    /\ out[Len(in)] = in[1]
    /\ \A k \in 1..(Len(in) - 1) : out[k] = in[k + 1]

\* The symptom form is submitted with valid text: handleSymptomSubmit runs.
AcceptedSymptomSubmit ==
    /\ SubmitSymptomForm
    /\ symptomFormResolver(symptomForm.symptoms) = nullStr

\* The location form is submitted with a valid location and
\* handleRemedySubmit's guard passes.
AcceptedRemedySubmit ==
    \E location \in LocationTexts :
        /\ SubmitLocationForm(location)
        /\ locationFormResolver(location) = nullStr
        /\ ~(analysisResult = null \/ currentSymptoms = "")

\* after is before with one call taken out.
OneCallSettled(before, after) ==
    \E i \in 1..Len(before) : after = RemoveAt(before, i)

(***************************************************************************)
(* C1                                                                      *)
(***************************************************************************)

\* C1: stale remedies are never shown against new symptoms: whenever
\* remedyResult is non-null it is the response to a remedy request whose
\* symptoms are the current currentSymptoms.
C1_NoStaleRemedies ==
    remedyResult # null => remedyResultOrigin.symptoms = currentSymptoms

(***************************************************************************)
(* C2                                                                      *)
(***************************************************************************)

\* C2 as stated: a remedy request is issued only when analysisResult is
\* present and non-empty (it lists at least one condition) and
\* currentSymptoms is non-empty.
C2_IssuedOnlyWithNonEmptyAnalysis ==
    [][ RemedyIssued =>
          /\ analysisResult # null
          /\ Len(analysisResult.conditions) > 0
          /\ currentSymptoms # "" ]_vars

\* C2, amended: a remedy request is issued only when analysisResult is
\* present (non-null; its conditions list may be empty) and currentSymptoms
\* is non-empty; when the handler's guard rejects, no call is issued, the
\* error message is set, and isLoadingRemedies, remedyResult and
\* analysisResult are left unchanged.
C2_RemedyGuard ==
    [][ /\ RemedyIssued =>
              /\ analysisResult # null
              /\ currentSymptoms # ""
        /\ RemedyGuardRejects =>
              /\ ~RemedyIssued
              /\ error' = AnalysisRequired
              /\ UNCHANGED << isLoadingRemedies, remedyResult, analysisResult, remedyCalls >>
      ]_vars

\* The guard has rejected a call: its message is up and nothing is loading
\* or held.
C2_Witness ==
    /\ error = AnalysisRequired
    /\ analysisResult = null
    /\ remedyCalls = << >>
    /\ ~isLoadingRemedies

(***************************************************************************)
(* C3                                                                      *)
(***************************************************************************)

\* C3: for a remedies list of length >= 2 the displayed order is the list
\* with its first element moved to the last position; for length <= 1 it is
\* the list itself; so the displayed list is a permutation of the list
\* returned, of the same length.
C3_DisplayedOrder ==
    [][ LET in == remedyResult'.remedies
            out == displayedRemedies'
        IN  /\ Len(in) >= 2 => FirstMovedToLast(in, out)
            /\ Len(in) <= 1 => out = in
            /\ Len(out) = Len(in)
            /\ \A x \in DisplayRemedies : Occurrences(out, x) = Occurrences(in, x)
      ]_vars

\* A list of three distinct remedies is displayed as the second, the third,
\* the first.
C3_Witness ==
    /\ remedyResult # null
    /\ Len(remedyResult.remedies) = 3
    /\ Cardinality({ remedyResult.remedies[k] : k \in 1..3 }) = 3
    /\ displayedRemedies = << remedyResult.remedies[2], remedyResult.remedies[3],
                              remedyResult.remedies[1] >>

(***************************************************************************)
(* C4                                                                      *)
(***************************************************************************)

\* C4: every remedy request issued carries possibleConditions = the
\* condition names of the analysisResult in state joined with ", " in
\* their original order ([Common Cold, Flu] gives "Common Cold, Flu"),
\* symptoms = currentSymptoms, and location = the location submitted.
C4_RemedyRequestPayload ==
    [][ RemedyIssued =>
          /\ NewRemedyCall.possibleConditions =
                 CommaJoined(conditionNames(analysisResult.conditions))
          /\ conditionNames(analysisResult.conditions) = << "Common Cold", "Flu" >>
                 => NewRemedyCall.possibleConditions = "Common Cold, Flu"
          /\ NewRemedyCall.symptoms = currentSymptoms
          /\ \E location \in LocationTexts :
                 /\ SubmitLocationForm(location)
                 /\ NewRemedyCall.location = location
      ]_vars

\* The spec's example is in flight.
C4_Witness ==
    /\ Len(remedyCalls) = 1
    /\ analysisResult # null
    /\ conditionNames(analysisResult.conditions) = << "Common Cold", "Flu" >>
    /\ remedyCalls[1] = [ symptoms |-> currentSymptoms,
                          location |-> "New York",
                          possibleConditions |-> "Common Cold, Flu" ]

(***************************************************************************)
(* C5                                                                      *)
(***************************************************************************)

\* C5: at most one analysis request and at most one remedy request are in
\* flight at any time; while a request of a kind is in flight its busy flag
\* is set and that kind's submit control is disabled.
C5_OneInFlightPerKind ==
    /\ Len(analysisCalls) <= 1
    /\ Len(remedyCalls) <= 1
    /\ Len(analysisCalls) = 1 => isLoadingAnalysis /\ symptomSubmitDisabled
    /\ Len(remedyCalls) = 1 => isLoadingRemedies /\ remedySubmitDisabled

\* One request of each kind is in flight.
C5_Witness ==
    /\ Len(analysisCalls) = 1
    /\ Len(remedyCalls) = 1

(***************************************************************************)
(* C6                                                                      *)
(***************************************************************************)

\* C6: if the analyzeSymptoms call throws or returns no output, then once
\* it settles the error banner reads "Failed to analyze symptoms. Please
\* try again.", analysisResult is null and isLoadingAnalysis is cleared.
C6_AnalysisFailureShown ==
    [][ AnalysisFails =>
          /\ error' = AnalysisFailed
          /\ analysisResult' = null
          /\ isLoadingAnalysis' = FALSE ]_vars

(***************************************************************************)
(* C7                                                                      *)
(***************************************************************************)

\* The location form can be submitted and handleRemedySubmit's guard passes.
RemedyRetryPossible ==
    /\ mounted
    /\ locationFormRendered
    /\ ~remedySubmitDisabled
    /\ ~(analysisResult = null \/ currentSymptoms = "")

\* C7: a failed remedy call leaves analysisResult and currentSymptoms as
\* they are, sets the banner to "Failed to recommend remedies. Please try
\* again." and clears isLoadingRemedies; with the analysis still held the
\* location form can be submitted again, and a remedy submission issues its
\* request without any analyzeSymptoms call.
C7_RemedyFailureKeepsAnalysis ==
    [][ /\ RemedyFails =>
              /\ analysisResult' = analysisResult
              /\ currentSymptoms' = currentSymptoms
              /\ error' = RemedyFailed
              /\ isLoadingRemedies' = FALSE
              /\ analysisResult # null => RemedyRetryPossible'
        /\ RemedyIssued =>
              /\ analysisCalls' = analysisCalls
              /\ isLoadingAnalysis' = isLoadingAnalysis
              /\ analysisResult' = analysisResult
      ]_vars

\* A remedy call has failed and the analysis is still on the page.
C7_Witness ==
    /\ error = RemedyFailed
    /\ analysisResult # null
    /\ remedyResult = null
    /\ remedyCalls = << >>
    /\ RemedyRetryPossible

(***************************************************************************)
(* C8                                                                      *)
(***************************************************************************)

\* C8: an accepted symptom submission clears the remedy result and the
\* previous analysis result in the step that submits, while the new
\* analysis call is still awaiting its answer.
C8_SubmissionClearsResults ==
    [][ AnalysisIssued =>
          /\ remedyResult' = null
          /\ analysisResult' = null
          /\ displayedRemedies' = << >>
          /\ isLoadingAnalysis'
          /\ NewAnalysisCall.symptoms = currentSymptoms' ]_vars

\* A second submission has just discarded an analysis and its remedies.
C8_Witness ==
    /\ discarded.analysis
    /\ discarded.remedy
    /\ Len(analysisCalls) = 1
    /\ remedyResult = null
    /\ analysisResult = null

(***************************************************************************)
(* C9                                                                      *)
(***************************************************************************)

\* C9: submitting symptom text shorter than 10 characters issues no
\* analyzeSymptoms call and shows the validation message; the handler is
\* not entered: analysisResult, remedyResult, currentSymptoms, error and
\* the busy flags stay as they are.  No call carries text shorter than 10.
C9_ShortSymptomsRejected ==
    [][ /\ (SubmitSymptomForm /\ Len(symptomForm.symptoms) < MinSymptoms) =>
              /\ symptomForm'.message = SymptomsTooShort
              /\ UNCHANGED << analysisResult, remedyResult, currentSymptoms, error,
                              isLoadingAnalysis, isLoadingRemedies,
                              analysisCalls, remedyCalls >>
        /\ AnalysisIssued => Len(NewAnalysisCall.symptoms) >= MinSymptoms
      ]_vars

\* A too-short text has been submitted, and nothing was ever sent.
C9_Witness ==
    /\ symptomForm.isSubmitted
    /\ Len(symptomForm.symptoms) < MinSymptoms
    /\ symptomForm.message = SymptomsTooShort
    /\ currentSymptoms = ""
    /\ analysisCalls = << >>

(***************************************************************************)
(* C10                                                                     *)
(***************************************************************************)

\* C10: submitting location text shorter than 2 characters issues no
\* remedyRecommendation call; remedyResult, error and isLoadingRemedies stay
\* as they are.  No call carries a location shorter than 2.
C10_ShortLocationRejected ==
    [][ /\ \A location \in LocationTexts :
              (SubmitLocationForm(location) /\ Len(location) < MinLocation) =>
                  UNCHANGED << remedyResult, error, isLoadingRemedies, remedyCalls >>
        /\ RemedyIssued => Len(NewRemedyCall.location) >= MinLocation
      ]_vars

\* A too-short location has been submitted with an analysis on the page,
\* and no remedy call is out.
C10_Witness ==
    /\ locationForm.message = LocationTooShort
    /\ analysisResult # null
    /\ remedyCalls = << >>
    /\ ~isLoadingRemedies
    /\ remedyResult = null

(***************************************************************************)
(* C11                                                                     *)
(***************************************************************************)

\* C11: neither AI operation resolves successfully with an absent result:
\* whenever a call settles on a provider answer, its flow either throws or
\* returns a value that is not null; on a provider answer without output it
\* throws.
C11_FlowsFailOnMissingOutput ==
    [][ /\ \A i \in 1..Len(analysisCalls), answer \in AnalysisProviderAnswers :
              symptomSubmitSettled(i, answer) =>
                  LET result == symptomAnalysisFlow(answer)
                  IN  /\ ~result.threw => result.value # null
                      /\ (~answer.threw /\ answer.output = null) => result.threw
        /\ \A i \in 1..Len(remedyCalls), answer \in RemedyProviderAnswers :
              remedySubmitSettled(i, answer) =>
                  LET result == remedyRecommendationFlow(answer)
                  IN  /\ ~result.threw => result.value # null
                      /\ (~answer.threw /\ answer.output = null) => result.threw
      ]_vars

(***************************************************************************)
(* C12                                                                     *)
(***************************************************************************)

\* C12: with every issued call eventually settling, every accepted
\* submission is eventually followed by a state in which its busy flag is
\* false (a flag that is set is always cleared later: each flag is false
\* infinitely often), and from every reachable state a state with
\* isLoadingAnalysis and isLoadingRemedies both false is eventually reached.
C12_ReturnsToInteractable ==
    /\ []<>(~isLoadingAnalysis)
    /\ []<>(~isLoadingRemedies)
    /\ []<>(~isLoadingAnalysis /\ ~isLoadingRemedies)

\* An analysis call has returned, a remedy call has failed, and the page is
\* interactable again: both forms can be submitted.
C12_Witness ==
    /\ error = RemedyFailed
    /\ symptomForm.isSubmitted
    /\ analysisResult # null
    /\ ~isLoadingAnalysis
    /\ ~isLoadingRemedies
    /\ analysisCalls = << >>
    /\ remedyCalls = << >>
    /\ ~symptomSubmitDisabled
    /\ ~remedySubmitDisabled

(***************************************************************************)
(* C13                                                                     *)
(***************************************************************************)

\* C13: every AI call is issued by exactly one accepted submit event and
\* nothing else issues one: an accepted symptom (resp. remedy) submission
\* adds exactly one analyzeSymptoms (resp. remedyRecommendation) call, and
\* every other step adds none (it leaves the calls as they are or settles
\* one), so the calls issued are as many as the accepted submissions; the
\* step in which a call fails removes that call and issues no other.
C13_NoAutomaticRetry ==
    [][ /\ AcceptedSymptomSubmit =>
              analysisCalls' = Append(analysisCalls, [symptoms |-> symptomForm.symptoms])
        /\ ~AcceptedSymptomSubmit =>
              analysisCalls' = analysisCalls \/ OneCallSettled(analysisCalls, analysisCalls')
        /\ AcceptedRemedySubmit =>
              /\ Len(remedyCalls') = Len(remedyCalls) + 1
              /\ SubSeq(remedyCalls', 1, Len(remedyCalls)) = remedyCalls
        /\ ~AcceptedRemedySubmit =>
              remedyCalls' = remedyCalls \/ OneCallSettled(remedyCalls, remedyCalls')
        /\ AnalysisFails =>
              /\ OneCallSettled(analysisCalls, analysisCalls')
              /\ remedyCalls' = remedyCalls
        /\ RemedyFails =>
              /\ OneCallSettled(remedyCalls, remedyCalls')
              /\ analysisCalls' = analysisCalls
      ]_vars

\* An analysis call has failed and no call of either kind is out: the
\* failure was not retried.
C13_Witness ==
    /\ error = AnalysisFailed
    /\ analysisResult = null
    /\ currentSymptoms # ""
    /\ ~isLoadingAnalysis
    /\ analysisCalls = << >>
    /\ remedyCalls = << >>

(***************************************************************************)
(* C14                                                                     *)
(***************************************************************************)

\* C14: in no reachable state are an analysis request and a remedy request
\* both in flight: isLoadingAnalysis and isLoadingRemedies are never both
\* true, and the two call lists are never both non-empty.
C14_KindsNotConcurrent ==
    /\ ~(isLoadingAnalysis /\ isLoadingRemedies)
    /\ ~(Len(analysisCalls) > 0 /\ Len(remedyCalls) > 0)

(***************************************************************************)
(* C15                                                                     *)
(***************************************************************************)

\* C15: computing displayedRemedies leaves remedyResult as it is (a step
\* changes remedyResult only by clearing it on a submission), and no
\* request carries the displayed order: the remedy request issued is built
\* from currentSymptoms, the location and analysisResult alone, the
\* analysis request from the symptom text alone.
C15_PureDisplayTransform ==
    [][ /\ remedyResult' = remedyResult \/ remedyResult' = null
        /\ RenderRemedies => remedyResult' = remedyResult
        /\ RemedyIssued =>
              \E location \in LocationTexts :
                  NewRemedyCall =
                      [ symptoms |-> currentSymptoms,
                        location |-> location,
                        possibleConditions |->
                            CommaJoined(conditionNames(analysisResult.conditions)) ]
        /\ AnalysisIssued => NewAnalysisCall = [symptoms |-> symptomForm.symptoms]
      ]_vars

\* Two distinct remedies are displayed second-first while remedyResult
\* still holds them first-second.
C15_Witness ==
    /\ remedyResult # null
    /\ Len(remedyResult.remedies) = 2
    /\ remedyResult.remedies[1].name = "Ginger Tea"
    /\ remedyResult.remedies[2].name = "Steam"
    /\ Len(displayedRemedies) = 2
    /\ displayedRemedies[1].name = "Steam"
    /\ displayedRemedies[2].name = "Ginger Tea"

(***************************************************************************)
(* C16                                                                     *)
(***************************************************************************)

\* C16: when the speech-recognition capability is unavailable, recognition
\* stays null, isListening is false in every reachable state, the toggle
\* handler changes nothing, and the symptom submit control is disabled
\* exactly while an analysis request is in flight.
C16_NoCapabilityNeverBlocks ==
    /\ [](~speechAPI =>
              /\ recognition = null
              /\ ~isListening
              /\ supportsVoiceInput # "true"
              /\ symptomSubmitDisabled <=> isLoadingAnalysis
              /\ isLoadingAnalysis <=> Len(analysisCalls) > 0)
    /\ [][ ~speechAPI =>
              /\ UNCHANGED << recognition, isListening, voiceInputError, session >>
              /\ CallToggleHandlerUnrendered => UNCHANGED vars ]_vars

\* Without the capability a symptom submission has been accepted and has
\* settled, and the form can be submitted again.
C16_Witness ==
    /\ ~speechAPI
    /\ supportsVoiceInput = "false"
    /\ recognition = null
    /\ analysisResult # null
    /\ ~isLoadingAnalysis
    /\ ~symptomSubmitDisabled

(***************************************************************************)
(* C17                                                                     *)
(***************************************************************************)

\* The texts the page is to show for the three named cases.
NoSpeechText ==
    "No speech detected. Please ensure your microphone is working and try again."
LanguageText ==
    "Nepali voice input might not be supported by your browser. Please try speaking in English, or ensure your browser and OS language settings are configured for Nepali."
DeniedText ==
    "Microphone access denied. Please enable microphone access in your browser settings and refresh the page."

\* C17: a recognition error sets the voice-input message and leaves the
\* general error banner as it is; the message is a text of its own for
\* no-speech, for language-not-supported and for not-allowed /
\* service-not-allowed, and a generic text, different from those three, for
\* any other code; after the error isListening is false.
C17_VoiceErrorSeparate ==
    [][ \A code \in SpeechErrors, message \in SpeechMessages :
            onerror(code, message) =>
                /\ error' = error
                /\ ~isListening'
                /\ voiceInputError' # nullStr
                /\ code = "no-speech" => voiceInputError' = NoSpeechText
                /\ code = "language-not-supported" => voiceInputError' = LanguageText
                /\ code \in { "not-allowed", "service-not-allowed" } =>
                       voiceInputError' = DeniedText
                /\ code \notin { "no-speech", "language-not-supported", "not-allowed",
                                  "service-not-allowed" } =>
                       /\ voiceInputError' \notin { NoSpeechText, LanguageText, DeniedText }
                       /\ voiceInputError' =
                              "Voice input error: "
                                  \o (IF message # "" THEN message ELSE code) \o "."
                /\ Cardinality({ NoSpeechText, LanguageText, DeniedText }) = 3
      ]_vars

\* The microphone was denied while the banner showed a failed remedy call:
\* the voice message is up, the banner still reads the remedy failure.
C17_Witness ==
    /\ voiceInputError = DeniedText
    /\ error = RemedyFailed
    /\ ~isListening
    /\ session = "ending"

(***************************************************************************)
(* C18                                                                     *)
(***************************************************************************)

\* C18: a recognized transcript is appended to the symptom field: a
\* non-empty field becomes its old value, one space, the transcript; an
\* empty field becomes the transcript; the old content stays at the front
\* of the new; the voice error message is cleared.
C18_TranscriptAppended ==
    [][ \A transcript \in Transcripts :
            onresult(transcript) =>
                LET old == symptomForm.symptoms
                    new == symptomForm'.symptoms
                IN  /\ old # "" => new = old \o " " \o transcript
                    /\ old = "" => new = transcript
                    /\ Len(new) = Len(old) + Len(transcript) + (IF old # "" THEN 1 ELSE 0)
                    /\ voiceInputError' = nullStr
      ]_vars

\* "coughs" was dictated after "dry" had been typed.
C18_Witness ==
    /\ symptomForm.symptoms = "dry coughs"
    /\ voiceInputError = nullStr
    /\ session = "ending"
    /\ isListening

(***************************************************************************)
(* C19                                                                     *)
(***************************************************************************)

\* C19: each busy flag is true exactly while a request of its kind is in
\* flight: isLoadingAnalysis (resp. isLoadingRemedies) is true if and only
\* if an analyzeSymptoms (resp. remedyRecommendation) call is outstanding;
\* the step that issues a call sets the flag, and the step that settles it,
\* on success and on failure alike, clears it.
C19_BusyFlagsTrackRequests ==
    /\ [](/\ isLoadingAnalysis <=> Len(analysisCalls) > 0
          /\ isLoadingRemedies <=> Len(remedyCalls) > 0)
    /\ [][ /\ AnalysisIssued => ~isLoadingAnalysis /\ isLoadingAnalysis'
           /\ RemedyIssued => ~isLoadingRemedies /\ isLoadingRemedies'
           /\ AnalysisSettles => isLoadingAnalysis /\ ~isLoadingAnalysis'
           /\ RemedySettles => isLoadingRemedies /\ ~isLoadingRemedies'
         ]_vars

\* A remedy call is in flight with its flag set, after the analysis call
\* settled and its flag was cleared.
C19_Witness ==
    /\ isLoadingRemedies
    /\ Len(remedyCalls) = 1
    /\ ~isLoadingAnalysis
    /\ analysisCalls = << >>
    /\ analysisResult # null
    /\ error = nullStr

(***************************************************************************)
(* C20                                                                     *)
(***************************************************************************)

\* C20: whenever the displayed remedies list is non-empty, exactly one
\* displayed remedy carries the "Most Effective" mark, it is the last
\* displayed element, and it is the first element of the list returned
\* (a single remedy is marked where it is).
C20_MostEffectiveMark ==
    Len(displayedRemedies) > 0 =>
        /\ Cardinality(mostEffectiveIndexes(displayedRemedies)) = 1
        /\ mostEffectiveIndexes(displayedRemedies) = { Len(displayedRemedies) }
        /\ displayedRemedies[Len(displayedRemedies)] = remedyResult.remedies[1]
        /\ Len(remedyResult.remedies) = 1 => displayedRemedies = remedyResult.remedies

\* Three distinct remedies are displayed and the mark is on the third, the
\* one returned first.
C20_Witness ==
    /\ Len(displayedRemedies) = 3
    /\ mostEffectiveIndexes(displayedRemedies) = { 3 }
    /\ displayedRemedies[3] = remedyResult.remedies[1]
    /\ displayedRemedies[3] # displayedRemedies[1]
    /\ displayedRemedies[3] # displayedRemedies[2]
    /\ displayedRemedies[1] # displayedRemedies[2]

(***************************************************************************)
(* C21                                                                     *)
(***************************************************************************)

\* C21: in every reachable state where analysisResult is non-null,
\* currentSymptoms is non-empty and analysisResult is the response to the
\* analysis request issued for exactly that text; so the symptoms and the
\* possibleConditions of every remedy request issued come from the same
\* symptom submission.
C21_AnalysisResultProvenance ==
    /\ [](analysisResult # null =>
              /\ currentSymptoms # ""
              /\ analysisResultOrigin # null
              /\ analysisResultOrigin.symptoms = currentSymptoms)
    /\ [][ RemedyIssued =>
              /\ analysisResultOrigin # null
              /\ NewRemedyCall.symptoms = analysisResultOrigin.symptoms
              /\ NewRemedyCall.possibleConditions =
                     CommaJoined(conditionNames(analysisResult.conditions))
         ]_vars

\* A remedy request is in flight while the symptom field already holds
\* another text: its symptoms and its conditions are those of the analysis
\* on the page.
C21_Witness ==
    /\ analysisResult # null
    /\ analysisResultOrigin = [symptoms |-> currentSymptoms]
    /\ Len(remedyCalls) = 1
    /\ remedyCalls[1].symptoms = currentSymptoms
    /\ remedyCalls[1].possibleConditions = "Flu, Common Cold"
    /\ symptomForm.symptoms # currentSymptoms

(***************************************************************************)
(* C22                                                                     *)
(***************************************************************************)

\* C22: no result is held while its own request is loading: in every
\* reachable state isLoadingAnalysis implies analysisResult is null and
\* isLoadingRemedies implies remedyResult is null.
C22_NoResultWhileLoading ==
    /\ isLoadingAnalysis => analysisResult = null
    /\ isLoadingRemedies => remedyResult = null

\* Both requests are loading, the analysis the page held has been cleared
\* and no remedies are held.
C22_Witness ==
    /\ isLoadingAnalysis
    /\ isLoadingRemedies
    /\ discarded.analysis
    /\ analysisResult = null
    /\ remedyResult = null

(***************************************************************************)
(* C23                                                                     *)
(***************************************************************************)

\* C23: the symptom submit control is disabled while isListening and the
\* microphone toggle is disabled while isLoadingAnalysis, and in no
\* reachable state are isListening and isLoadingAnalysis both true.
C23_DictationExcludesAnalysis ==
    /\ isListening => symptomSubmitDisabled
    /\ isLoadingAnalysis => voiceToggleDisabled
    /\ ~(isListening /\ isLoadingAnalysis)

\* Dictation is running on a text that would pass validation, and the
\* submit control is disabled.
C23_Witness ==
    /\ isListening
    /\ session = "started"
    /\ Len(symptomForm.symptoms) >= MinSymptoms
    /\ symptomSubmitDisabled
    /\ ~isLoadingAnalysis

(***************************************************************************)
(* C24                                                                     *)
(***************************************************************************)

\* C24: a click on the toggle while not listening clears the general error
\* and either starts dictation (isListening true, voice error cleared) or,
\* when recognition.start() throws, leaves isListening false and sets the
\* voice error; a click while listening requests stop and leaves
\* isListening as it is; onend and onerror leave isListening false; and,
\* the browser's end events and the calls' answers eventually arriving,
\* isListening returns to false and the symptom submit control is enabled
\* again.
C24_ListeningReturnsToFalse ==
    /\ [][ /\ (ClickVoiceToggle /\ ~isListening) =>
                 /\ error' = nullStr
                 /\ \/ /\ session = "idle"
                       /\ isListening'
                       /\ session' = "started"
                       /\ voiceInputError' = nullStr
                    \/ /\ session # "idle"
                       /\ ~isListening'
                       /\ voiceInputError' = CouldNotStart
           /\ (ClickVoiceToggle /\ isListening) =>
                 /\ isListening'
                 /\ session = "started" => session' = "stopping"
                 /\ UNCHANGED << error, voiceInputError >>
           /\ onend => ~isListening'
           /\ (\E code \in SpeechErrors, message \in SpeechMessages :
                   onerror(code, message)) => ~isListening'
         ]_vars
    /\ []<>(~isListening)
    /\ []<>(~symptomSubmitDisabled)

\* A dictation has delivered its transcript and ended: the flag is false
\* again and the form can be submitted.
C24_Witness ==
    /\ symptomForm.symptoms = "coughs"
    /\ session = "idle"
    /\ ~isListening
    /\ recognition # null
    /\ ~symptomSubmitDisabled

(***************************************************************************)
(* C25                                                                     *)
(***************************************************************************)

\* C25: accepting a symptom submission or a guard-passing remedy
\* submission sets error to null, and a step puts a message on the banner
\* only if it is a failing AI call or a rejected remedy guard, with that
\* failure's message; so a message on the banner always dates from after
\* the most recent accepted submission.
C25_BannerLifetime ==
    [][ /\ AcceptedSymptomSubmit => error' = nullStr
        /\ AcceptedRemedySubmit => error' = nullStr
        /\ (error' # nullStr /\ error' # error) =>
              \/ (\E i \in 1..Len(analysisCalls) : AnalyzeSymptomsThrows(i))
                    /\ error' = AnalysisFailed
              \/ RemedyFails /\ error' = RemedyFailed
              \/ RemedyGuardRejects /\ error' = AnalysisRequired
      ]_vars

\* A remedy call issued before the latest symptom submission has failed
\* after it: the banner shows that failure while the analysis is loading.
C25_Witness ==
    /\ error = RemedyFailed
    /\ isLoadingAnalysis
    /\ Len(analysisCalls) = 1
    /\ remedyCalls = << >>
    /\ ~isLoadingRemedies

====
